---- MODULE Spec2Model ----
(***************************************************************************)
(* meshtastic-bot: the action dispatch engine (actions/manager.py), the    *)
(* action modules it loads (actions/*.py) and the connection supervisor    *)
(* loop with its packet callback (main.py).                                *)
(*                                                                         *)
(* Two threads run the program: "main" runs main() and its tick loop,      *)
(* "reader" is the transport's reader thread, which publishes inbound      *)
(* packets and so runs on_receive.                                         *)
(***************************************************************************)
EXTENDS Integers, Sequences, FiniteSets, TLC

VARIABLES
  actions,      \* ActionManager.actions: the loaded modules, in insertion order
  pass,         \* per thread: the run_actions call in progress
  hist,         \* per thread: what the run_actions call in progress has done
  timer,        \* last_run_time of reboot_node / status_reporter against the clock
  pc,           \* main(): position of the main thread
  iface,        \* main(): local iface (0 is None)
  my_node_num,  \* main.py global my_node_num (0 is None)
  conn,         \* main.py global conn: "open" | "closed"
  subscribed,   \* number of times on_receive listens on "meshtastic.receive"
  link,         \* the transport behind iface: "none" | "open" | "closed"
  hbDue,        \* time.time() - last_heartbeat_time > 30
  exc,          \* the exception main() is handling or died of
  origin,       \* the position at which that exception was raised
  trace,        \* supervisor states up to the first Connected
  backoffs,     \* time.sleep(30) calls completed
  connectFails, \* connect attempts that failed
  otherFails,   \* failures after a successful connect
  tickSeen,     \* a Tick dispatch pass has started since the last failure
  config,       \* CONNECTION_TYPE / DEVICE_IP as read at import
  files,        \* load_actions: the *.py files of actions/, in the order glob yields them
  scanned,      \* load_actions: the number of files the for loop is done with
  loadpc,       \* load_actions: "scan" (in the for loop) | "done" (returned)
  device,       \* node number of the device the last constructor call reached (0: none)
  leaked,       \* transports opened by a constructor that then raised
  world,        \* what the surroundings do in this run: "swap" (another device may
                \* answer a later connect), "leak" (a constructor may raise after
                \* it has opened the transport)
  seen,         \* the node_id column of the nodes table behind conn
  welcomes,     \* per node: welcome messages sendText has accepted
  retry,        \* ping_pong._send_pong_response: the call in progress
  probe         \* the last direct call of a module function or of on_receive

dvars == <<actions, pass, hist, timer>>
svars == <<pc, iface, my_node_num, conn, subscribed, link, hbDue, exc, origin,
           trace, backoffs, connectFails, otherFails, tickSeen, config>>
lvars == <<files, scanned, loadpc>>
cvars == <<device, leaked, world>>
mvars == <<seen, welcomes, retry, probe>>
vars == <<actions, pass, hist, timer, pc, iface, my_node_num, conn, subscribed,
          link, hbDue, exc, origin, trace, backoffs, connectFails, otherFails,
          tickSeen, config, files, scanned, loadpc, device, leaked, world,
          seen, welcomes, retry, probe>>

Threads == {"main", "reader"}

(***************************************************************************)
(* Bounds.                                                                 *)
(***************************************************************************)
\* number of modules in a registry of the dispatch harness
RegistrySize == 2
\* connect attempts that may fail in a run of the supervisor
MaxFails == 2
\* files in the actions directory that load_actions scans
MaxFiles == 2
\* constructor calls that may raise after they opened the transport
MaxLeaks == 1
\* welcome messages to one node that are followed
MaxWelcomes == 2

(***************************************************************************)
(* Values.                                                                 *)
(***************************************************************************)
\* packet=None, the default of run_actions
NoPacket == [kind |-> "None"]
\* inbound packets: a dict with a sender
Packets == {[kind |-> "packet", from |-> 2]}
\* an empty dict, which `not packet` takes for no packet
EmptyPacket == [kind |-> "empty"]
\* a packet that is no dict
BadPacket == [kind |-> "malformed"]
\* the handle a successful connect returns, and the device's node number
Handle == 1
DeviceNodeNum == 1
\* the other nodes of the mesh that send packets
Senders == {2, 5}
\* a node that is neither this one nor a sender
ElseNodeNum == 4

\* text payloads, as the characters of the decoded bytes
Payloads ==
  {<<"p", "i", "n", "g">>, <<" ", "P", "i", "N", "G", " ">>,
   <<"p", "o", "n", "g">>, <<"p", "i", "n", "g", "!">>,
   <<"p", " ", "i", "n", "g">>, <<>>}

\* packets as the transport publishes them: "from" 0 stands for a missing
\* sender, portnum "none" for a packet without decoded part, rf for rxRssi and
\* rxSnr both being present
MeshPackets ==
  [kind : {"packet"}, from : {0, DeviceNodeNum} \cup Senders,
   to : {DeviceNodeNum, ElseNodeNum},
   portnum : {"TEXT_MESSAGE_APP", "POSITION_APP", "none"},
   payload : Payloads, rf : BOOLEAN]

\* bool(packet): None and {} are falsy
Truthy(p) == p.kind = "packet"

\* str.strip(): leading and trailing whitespace removed
RECURSIVE Strip(_)
Strip(w) ==
  IF w = <<>> THEN w
  ELSE IF Head(w) = " " THEN Strip(Tail(w))
  ELSE IF w[Len(w)] = " " THEN Strip(SubSeq(w, 1, Len(w) - 1))
  ELSE w

\* str.lower()
LowerChar(c) ==
  CASE c = "P" -> "p" [] c = "I" -> "i" [] c = "N" -> "n" [] c = "G" -> "g"
    [] c = "O" -> "o" [] OTHER -> c
Lower(w) == [k \in 1..Len(w) |-> LowerChar(w[k])]
\* the node number of another device that may be behind PORT or DEVICE_IP at a
\* later connect
OtherNodeNum == 3
Devices == {DeviceNodeNum, OtherNodeNum}

(***************************************************************************)
(* The action modules: which functions a module defines and which          *)
(* parameters its execute declares.                                        *)
(***************************************************************************)
PingPong ==
  [name |-> "ping_pong", sr |-> TRUE, srop |-> FALSE, params |-> {"packet"}]
RebootNode ==
  [name |-> "reboot_node", sr |-> TRUE, srop |-> FALSE, params |-> {}]
StatusReporter ==
  [name |-> "status_reporter", sr |-> TRUE, srop |-> FALSE, params |-> {}]
WelcomeMessage ==
  [name |-> "welcome_message", sr |-> TRUE, srop |-> TRUE,
   params |-> {"packet", "conn"}]

\* a module of any shape whose functions may return anything or raise
Stubs ==
  [name : {"stub"}, sr : BOOLEAN, srop : BOOLEAN,
   params : SUBSET {"packet", "conn"}]

\* module-level last_run_time = 0 of reboot_node and status_reporter.
\* "unset": last_run_time == 0 as the sentinel reboot_node tests;
\* "elapsed": current_time - last_run_time >= INTERVAL_SECONDS;
\* "running": not yet.  status_reporter compares the epoch clock with 0.
InitTimer == [reboot_node |-> "unset", status_reporter |-> "elapsed"]

\* should_run(): the set of <<result, timer afterwards>>
ShouldRun(m, tm) ==
  CASE m.name = "ping_pong" -> {<<"true", tm>>}
    [] m.name = "welcome_message" -> {<<"false", tm>>}
    [] m.name = "reboot_node" ->
         IF tm.reboot_node = "unset"
         THEN {<<"false", [tm EXCEPT !.reboot_node = "running"]>>}
         ELSE IF tm.reboot_node = "elapsed" THEN {<<"true", tm>>}
         ELSE {<<"false", tm>>}
    [] m.name = "status_reporter" ->
         IF tm.status_reporter = "elapsed" THEN {<<"true", tm>>}
         ELSE {<<"false", tm>>}
    [] OTHER -> {<<o, tm>> : o \in {"true", "false", "raise"}}

\* should_run_on_packet(): the set of results
ShouldRunOnPacket(m) ==
  CASE m.name = "welcome_message" -> {"true"}
    [] OTHER -> {"true", "false", "raise"}

\* a variant in which reboot_node's failure path leaves last_run_time alone
ExecuteRebootKeepsTimer(m, tm) ==
  CASE m.name = "ping_pong" -> {<<"ok", tm>>}
    [] m.name = "welcome_message" -> {<<"ok", tm>>}
    [] m.name = "reboot_node" ->
         {<<"ok", [tm EXCEPT !.reboot_node = "running"]>>, <<"ok", tm>>}
    [] m.name = "status_reporter" ->
         {<<"ok", [tm EXCEPT !.status_reporter = "running"]>>, <<"raise", tm>>}
    [] OTHER -> {<<"ok", tm>>, <<"raise", tm>>}

\* execute(interface, my_node_num, **kwargs): the set of <<outcome, timer afterwards>>.
\* reboot_node sets last_run_time whether the reboot command is sent or raises;
\* status_reporter sets it at its end, which an exception on the way skips
Execute(m, tm) ==
  CASE m.name = "ping_pong" -> {<<"ok", tm>>}
    [] m.name = "welcome_message" -> {<<"ok", tm>>}
    [] m.name = "reboot_node" -> {<<"ok", [tm EXCEPT !.reboot_node = "running"]>>}
    [] m.name = "status_reporter" ->
         {<<"ok", [tm EXCEPT !.status_reporter = "running"]>>, <<"raise", tm>>}
    [] OTHER -> {<<"ok", tm>>, <<"raise", tm>>}

(***************************************************************************)
(* ActionManager.run_actions.                                              *)
(***************************************************************************)
IdlePass ==
  [on |-> FALSE, i |-> 0, stage |-> "check", packet |-> NoPacket,
   interface |-> 0, my_node_num |-> 0, conn |-> "closed", escaped |-> "none"]

\* stage "check": at the top of the loop body for module i; "run": should_execute
\* is true for it; "return": the loop is over (or an exception leaves the call)
NewPass(interface, num, packet, c) ==
  [on |-> TRUE, i |-> IF actions = <<>> THEN 0 ELSE 1,
   stage |-> IF actions = <<>> THEN "return" ELSE "check", packet |-> packet,
   interface |-> interface, my_node_num |-> num, conn |-> c,
   escaped |-> "none"]

NewHist(interface, num, packet, c) ==
  [packet |-> packet, interface |-> interface, my_node_num |-> num,
   conn |-> c, calls |-> <<>>, visited |-> {}, touched |-> {}]

NoHist ==
  [packet |-> NoPacket, interface |-> 0, my_node_num |-> 0, conn |-> "closed",
   calls |-> <<>>, visited |-> {}, touched |-> {}]

\* the for loop goes on to the next module, or run_actions returns
Advance(p) ==
  IF p.i < Len(actions) THEN [p EXCEPT !.i = p.i + 1, !.stage = "check"]
  ELSE [p EXCEPT !.stage = "return"]

\* a variant in which the try encloses the loop: the first error ends the pass
CaughtOutsideLoop(p) == [p EXCEPT !.stage = "return", !.escaped = "Exception"]

\* except Exception inside the loop body: log, then the next module
Caught(p) == Advance(p)

\* a variant that asks should_run_on_packet first whatever the event is
EligibilityEventFirst(m, packet, tm) ==
  IF m.srop
  THEN {[made |-> <<<<"should_run_on_packet", o>>>>, go |-> o = "true",
         err |-> o = "raise", tm |-> tm] : o \in ShouldRunOnPacket(m)}
  ELSE IF m.sr
  THEN {[made |-> <<<<"should_run", r[1]>>>>, go |-> r[1] = "true",
         err |-> r[1] = "raise", tm |-> r[2]] : r \in ShouldRun(m, tm)}
  ELSE {[made |-> <<>>, go |-> FALSE, err |-> FALSE, tm |-> tm]}

\* a variant without the packet branch: should_run decides every event
EligibilityFallThrough(m, packet, tm) ==
  IF m.sr
  THEN {[made |-> <<<<"should_run", r[1]>>>>, go |-> r[1] = "true",
         err |-> r[1] = "raise", tm |-> r[2]] : r \in ShouldRun(m, tm)}
  ELSE {[made |-> <<>>, go |-> FALSE, err |-> FALSE, tm |-> tm]}

\* a variant without the legacy branch: only should_run_on_packet decides on a packet
EligibilityNoShim(m, packet, tm) ==
  IF packet # NoPacket
  THEN IF m.srop
       THEN {[made |-> <<<<"should_run_on_packet", o>>>>, go |-> o = "true",
              err |-> o = "raise", tm |-> tm] : o \in ShouldRunOnPacket(m)}
       ELSE {[made |-> <<>>, go |-> FALSE, err |-> FALSE, tm |-> tm]}
  ELSE IF m.sr
  THEN {[made |-> <<<<"should_run", r[1]>>>>, go |-> r[1] = "true",
         err |-> r[1] = "raise", tm |-> r[2]] : r \in ShouldRun(m, tm)}
  ELSE {[made |-> <<>>, go |-> FALSE, err |-> FALSE, tm |-> tm]}

\* should_execute of one module: the calls made, the decision, whether a call
\* raised, and the timers afterwards
Eligibility(m, packet, tm) ==
  IF packet # NoPacket
  THEN IF m.srop
       THEN {[made |-> <<<<"should_run_on_packet", o>>>>, go |-> o = "true",
              err |-> o = "raise", tm |-> tm] : o \in ShouldRunOnPacket(m)}
       ELSE IF m.sr
       THEN {[made |-> <<<<"should_run", r[1]>>>>,
              go |-> r[1] = "true" /\ "packet" \in m.params,
              err |-> r[1] = "raise", tm |-> r[2]] : r \in ShouldRun(m, tm)}
       ELSE {[made |-> <<>>, go |-> FALSE, err |-> FALSE, tm |-> tm]}
  ELSE IF m.sr
  THEN {[made |-> <<<<"should_run", r[1]>>>>, go |-> r[1] = "true",
         err |-> r[1] = "raise", tm |-> r[2]] : r \in ShouldRun(m, tm)}
  ELSE {[made |-> <<>>, go |-> FALSE, err |-> FALSE, tm |-> tm]}

\* a variant that passes packet and conn to every execute
KwargsAll(m) == {"packet", "conn"}

\* the keyword arguments built from inspect.signature(execute)
Kwargs(m) == m.params \cap {"packet", "conn"}

Touched(tm1, tm2) == {n \in DOMAIN tm1 : tm1[n] # tm2[n]}

\* one loop iteration up to `if should_execute`
Check(t) ==
  /\ pass[t].on
  /\ pass[t].stage = "check"
  /\ LET p == pass[t]
         m == actions[p.i]
     IN \E e \in Eligibility(m, p.packet, timer) :
          /\ timer' = e.tm
          /\ pass' = [pass EXCEPT ![t] =
                IF e.err THEN Caught(p)
                ELSE IF e.go THEN [p EXCEPT !.stage = "run"]
                ELSE Advance(p)]
          /\ hist' = [hist EXCEPT
                ![t].calls = @ \o [k \in 1..Len(e.made) |->
                                     [i |-> p.i, fn |-> e.made[k][1],
                                      out |-> e.made[k][2], kw |-> {},
                                      pos |-> <<>>, db |-> conn]],
                ![t].visited = @ \cup {p.i},
                ![t].touched = @ \cup Touched(timer, e.tm)]
  /\ UNCHANGED actions

\* the rest of the iteration: bind the arguments and call execute
Invoke(t) ==
  /\ pass[t].on
  /\ pass[t].stage = "run"
  /\ LET p == pass[t]
         m == actions[p.i]
     IN \E x \in Execute(m, timer) :
          /\ timer' = x[2]
          /\ pass' = [pass EXCEPT ![t] =
                IF x[1] = "raise" THEN Caught(p) ELSE Advance(p)]
          /\ hist' = [hist EXCEPT
                ![t].calls = Append(@, [i |-> p.i, fn |-> "execute",
                                        out |-> x[1], kw |-> Kwargs(m),
                                        pos |-> <<p.interface, p.my_node_num>>,
                                        db |-> conn]),
                ![t].touched = @ \cup Touched(timer, x[2])]
  /\ UNCHANGED actions

\* run_actions is left: its locals are gone
Return(t) ==
  /\ pass[t].on
  /\ pass[t].stage = "return"
  /\ pass' = [pass EXCEPT ![t] = IdlePass]
  /\ hist' = [hist EXCEPT ![t] = NoHist]
  /\ UNCHANGED <<actions, timer>>

(***************************************************************************)
(* The dispatch harness: run_actions called directly on registries of      *)
(* stub modules of every shape, as a unit test of the engine would.        *)
(***************************************************************************)
Rest ==
  /\ pc = "harness" /\ iface = 0 /\ my_node_num = 0 /\ conn = "open"
  /\ subscribed = 0 /\ link = "none" /\ hbDue = FALSE /\ exc = "none"
  /\ origin = "none" /\ trace = <<"Disconnected">> /\ backoffs = 0
  /\ connectFails = 0 /\ otherFails = 0 /\ tickSeen = FALSE
  /\ config = "serial"

\* load_actions has returned
Loaded == files = <<>> /\ scanned = 0 /\ loadpc = "done"

\* no connection has been made; the same device answers every connect and a
\* constructor that raises has opened nothing
Unconnected == device = 0 /\ leaked = 0 /\ world = {}

\* no module function is being called directly; the nodes table is empty
NoRetry == [on |-> FALSE, attempt |-> 0, log |-> <<>>, out |-> "none"]
NoProbe == [fn |-> "none"]
Untouched ==
  /\ seen = {}
  /\ welcomes = [n \in Senders |-> 0]
  /\ retry = NoRetry
  /\ probe = NoProbe

InitDispatch ==
  /\ actions \in [1..RegistrySize -> Stubs]
  /\ pass = [t \in Threads |-> IdlePass]
  /\ hist = [t \in Threads |-> NoHist]
  /\ timer = InitTimer
  /\ Rest
  /\ Loaded
  /\ Unconnected
  /\ Untouched

\* the harness calls run_actions from one thread, one call after the other
Quiet == \A t \in Threads : ~pass[t].on

\* run_actions(interface, my_node_num, conn=conn)
HarnessTick ==
  /\ Quiet
  /\ pass' = [pass EXCEPT !["main"] = NewPass(Handle, DeviceNodeNum, NoPacket, "open")]
  /\ hist' = [hist EXCEPT !["main"] = NewHist(Handle, DeviceNodeNum, NoPacket, "open")]
  /\ probe' = NoProbe
  /\ UNCHANGED <<actions, timer, seen, welcomes, retry>>
  /\ UNCHANGED svars
  /\ UNCHANGED lvars
  /\ UNCHANGED cvars

\* run_actions(interface, my_node_num, packet=packet, conn=conn)
HarnessPacket ==
  /\ Quiet
  /\ \E p \in Packets :
       /\ pass' = [pass EXCEPT !["main"] = NewPass(Handle, DeviceNodeNum, p, "open")]
       /\ hist' = [hist EXCEPT !["main"] = NewHist(Handle, DeviceNodeNum, p, "open")]
  /\ probe' = NoProbe
  /\ UNCHANGED <<actions, timer, seen, welcomes, retry>>
  /\ UNCHANGED svars
  /\ UNCHANGED lvars
  /\ UNCHANGED cvars

\* a variant of on_receive without the check of the interface
OnReceiveOutcomeAnyInterface(packet, interface, am) ==
  IF packet.kind \in {"None", "empty"} THEN "returned"
  ELSE IF packet.kind = "malformed" THEN "logged"
  ELSE IF am THEN "dispatched" ELSE "returned"

\* on_receive(packet, interface) with action_manager set (am) or still None:
\* it returns at once, or the exception of packet.get on a packet that is no
\* dict is caught and logged, or run_actions is called
OnReceiveOutcome(packet, interface, am) ==
  IF packet.kind \in {"None", "empty"} \/ interface = 0 THEN "returned"
  ELSE IF packet.kind = "malformed" THEN "logged"
  ELSE IF am THEN "dispatched" ELSE "returned"

\* on_receive called by hand, as the publisher of the transport calls it
HarnessReceive ==
  /\ Quiet
  /\ \E p \in Packets \cup {NoPacket, EmptyPacket, BadPacket},
        i \in {0, Handle}, am \in BOOLEAN :
       LET out == OnReceiveOutcome(p, i, am)
       IN /\ probe' = [fn |-> "on_receive", packet |-> p, interface |-> i,
                       am |-> am, out |-> out]
          /\ IF out = "dispatched"
             THEN /\ pass' = [pass EXCEPT !["main"] = NewPass(i, DeviceNodeNum, p, "open")]
                  /\ hist' = [hist EXCEPT !["main"] = NewHist(i, DeviceNodeNum, p, "open")]
             ELSE UNCHANGED <<pass, hist>>
  /\ UNCHANGED <<actions, timer, seen, welcomes, retry>>
  /\ UNCHANGED svars
  /\ UNCHANGED lvars
  /\ UNCHANGED cvars

HarnessCheck == Check("main") /\ UNCHANGED svars /\ UNCHANGED lvars /\ UNCHANGED cvars /\ UNCHANGED mvars

HarnessInvoke == Invoke("main") /\ UNCHANGED svars /\ UNCHANGED lvars /\ UNCHANGED cvars /\ UNCHANGED mvars

HarnessReturn == Return("main") /\ UNCHANGED svars /\ UNCHANGED lvars /\ UNCHANGED cvars /\ UNCHANGED mvars

NextDispatch ==
  \/ HarnessTick
  \/ HarnessPacket
  \/ HarnessReceive
  \/ HarnessCheck
  \/ HarnessInvoke
  \/ HarnessReturn

SpecDispatch == InitDispatch /\ [][NextDispatch]_vars

(***************************************************************************)
(* The functions of ping_pong and welcome_message, called directly on      *)
(* packets of every shape.                                                 *)
(***************************************************************************)
\* max_attempts of _send_pong_response
max_attempts == 3

\* a variant of ping_pong.execute without the check of the destination
PongDueAnyDestination(p, my) ==
  /\ p.portnum = "TEXT_MESSAGE_APP"
  /\ Lower(Strip(p.payload)) = <<"p", "i", "n", "g">>
  /\ p.from # my

\* ping_pong.execute reaches _send_pong_response(interface, from_node)
PongDue(p, my) ==
  /\ p.portnum = "TEXT_MESSAGE_APP"
  /\ Lower(Strip(p.payload)) = <<"p", "i", "n", "g">>
  /\ p.from # my
  /\ p.to = my

\* ping_pong.execute(interface, my_node_num, packet)
PingPongExecute ==
  /\ ~retry.on
  /\ \E p \in MeshPackets \cup {NoPacket, EmptyPacket}, my \in Devices :
       /\ probe' = [fn |-> "ping_pong.execute", packet |-> p, my |-> my]
       /\ retry' = IF Truthy(p) /\ PongDue(p, my)
                   THEN [on |-> TRUE, attempt |-> 0, log |-> <<>>, out |-> "none"]
                   ELSE NoRetry
  /\ UNCHANGED <<seen, welcomes>>
  /\ UNCHANGED dvars
  /\ UNCHANGED svars
  /\ UNCHANGED lvars
  /\ UNCHANGED cvars

\* what one round of the retry loop meets: interface.myInfo missing, sendText
\* returning a packet, sendText returning None or 0, sendText raising
Attempts == {"unready", "sent_ok", "sent_fail", "send_raises"}

\* a variant of the loop without its return statements
RetryEndsNever(o, attempt) == FALSE

\* the return statements inside the loop: after a successful send, and for a
\* device that is still not ready in the last round
RetryEnds(o, attempt) ==
  o = "sent_ok" \/ (o = "unready" /\ attempt = max_attempts - 1)

\* one round of for attempt in range(max_attempts) in _send_pong_response
RetryAttempt ==
  /\ retry.on
  /\ \E o \in Attempts :
       LET over == RetryEnds(o, retry.attempt) \/ retry.attempt + 1 >= max_attempts
       IN retry' = [on |-> ~over, attempt |-> retry.attempt + 1,
                    log |-> Append(retry.log, o),
                    out |-> IF over THEN "returned" ELSE "none"]
  /\ UNCHANGED <<seen, welcomes, probe>>
  /\ UNCHANGED dvars
  /\ UNCHANGED svars
  /\ UNCHANGED lvars
  /\ UNCHANGED cvars

\* the packets as welcome_message.execute reads them: the sender and the two
\* radio fields
WelcomePackets ==
  {p \in MeshPackets : p.to = DeviceNodeNum /\ p.portnum = "POSITION_APP" /\ p.payload = <<>>}

\* welcome_message.execute returns before it looks at the database
WelcomeSkips(p, my, c) ==
  \/ ~Truthy(p)
  \/ c = "None"
  \/ p.from = 0
  \/ p.from = my
  \/ ~p.rf

\* what the rest of welcome_message.execute meets: has_seen_node raising (always
\* on a closed handle), the node found, sendText raising, store_node raising
\* after the send, or both going through
WelcomeOutcomes(p, c) ==
  IF c = "closed" THEN {"lookup_raises"}
  ELSE IF p.from \in seen THEN {"lookup_raises", "seen"}
  ELSE {"lookup_raises", "send_raises", "store_raises", "stored"}

\* welcome_message.execute(interface, my_node_num, packet, conn)
WelcomeExecute ==
  /\ ~retry.on
  /\ \E p \in WelcomePackets \cup {NoPacket, EmptyPacket}, c \in {"None", "open", "closed"} :
       /\ probe' = [fn |-> "welcome_message.execute", packet |-> p,
                    my |-> DeviceNodeNum]
       /\ IF WelcomeSkips(p, DeviceNodeNum, c)
          THEN UNCHANGED <<seen, welcomes>>
          ELSE \E o \in WelcomeOutcomes(p, c) :
                 /\ o \in {"store_raises", "stored"} => welcomes[p.from] < MaxWelcomes
                 /\ welcomes' = IF o \in {"store_raises", "stored"}
                                THEN [welcomes EXCEPT ![p.from] = @ + 1]
                                ELSE welcomes
                 /\ seen' = IF o = "stored" THEN seen \cup {p.from} ELSE seen
  /\ UNCHANGED retry
  /\ UNCHANGED dvars
  /\ UNCHANGED svars
  /\ UNCHANGED lvars
  /\ UNCHANGED cvars

InitModules ==
  /\ actions = <<>>
  /\ pass = [t \in Threads |-> IdlePass]
  /\ hist = [t \in Threads |-> NoHist]
  /\ timer = InitTimer
  /\ Rest
  /\ Loaded
  /\ Unconnected
  /\ Untouched

NextPingPong == PingPongExecute \/ RetryAttempt

SpecPingPong == InitModules /\ [][NextPingPong]_vars

NextWelcome == WelcomeExecute

SpecWelcome == InitModules /\ [][NextWelcome]_vars

(***************************************************************************)
(* ActionManager.load_actions, on directories of candidate files of every  *)
(* shape.                                                                  *)
(***************************************************************************)
\* a file of actions/: a file load_actions passes over by its name
\* (__init__.py, manager.py), a module whose import raises, or a module that
\* imports and defines some of should_run, should_run_on_packet, execute and
\* get_info (which may raise)
Candidates ==
  [kind : {"skipped"}, imports : {FALSE}, sr : {FALSE}, srop : {FALSE},
   exec : {FALSE}, getinfo : {"none"}]
  \cup [kind : {"module"}, imports : {FALSE}, sr : {FALSE}, srop : {FALSE},
        exec : {FALSE}, getinfo : {"none"}]
  \cup [kind : {"module"}, imports : {TRUE}, sr : BOOLEAN, srop : BOOLEAN,
        exec : BOOLEAN, getinfo : {"none", "ok", "raise"}]

\* the module object that exec_module leaves behind
ModuleOf(f) ==
  [name |-> "stub", sr |-> f.sr, srop |-> f.srop, params |-> {"packet", "conn"}]

\* if hasattr(module, 'should_run') and hasattr(module, 'execute')
Accepted(f) == f.sr /\ f.exec

InitLoad ==
  /\ actions = <<>>
  /\ pass = [t \in Threads |-> IdlePass]
  /\ hist = [t \in Threads |-> NoHist]
  /\ timer = InitTimer
  /\ Rest
  /\ files \in UNION {[1..n -> Candidates] : n \in 0..MaxFiles}
  /\ scanned = 0
  /\ loadpc = "scan"
  /\ Unconnected
  /\ Untouched

\* one iteration of for file_path in actions_dir.glob("*.py"): a file passed
\* over by name, an import that raises (caught, logged), a module without
\* should_run or execute (warned about), or a module stored in self.actions;
\* get_info is called after the module is stored, so its raising (caught, logged)
\* leaves the module in the registry
LoadFile ==
  /\ loadpc = "scan"
  /\ scanned < Len(files)
  /\ LET f == files[scanned + 1]
     IN actions' = IF f.kind = "module" /\ f.imports /\ Accepted(f)
                   THEN Append(actions, ModuleOf(f))
                   ELSE actions
  /\ scanned' = scanned + 1
  /\ UNCHANGED <<files, loadpc>>
  /\ UNCHANGED <<pass, hist, timer>>
  /\ UNCHANGED svars
  /\ UNCHANGED cvars
  /\ UNCHANGED mvars

\* the loop is over and load_actions returns
LoadReturn ==
  /\ loadpc = "scan"
  /\ scanned = Len(files)
  /\ loadpc' = "done"
  /\ UNCHANGED <<files, scanned>>
  /\ UNCHANGED dvars
  /\ UNCHANGED svars
  /\ UNCHANGED cvars
  /\ UNCHANGED mvars

NextLoad == LoadFile \/ LoadReturn

SpecLoad == InitLoad /\ [][NextLoad]_vars

(***************************************************************************)
(* main(): the connection supervisor.                                      *)
(***************************************************************************)
\* the modules load_actions accepts from actions/, in the order glob yields them
ScanOrders ==
  {<<PingPong, RebootNode, StatusReporter, WelcomeMessage>>,
   <<WelcomeMessage, StatusReporter, RebootNode, PingPong>>}

\* CONNECTION_TYPE "serial", "ip" with DEVICE_IP, "ip" without DEVICE_IP, anything else
Configs == {"serial", "ip", "ip_unset", "unknown"}
\* a variant that calls a constructor whatever the configuration is
ConnectableAlways == {"serial", "ip", "ip_unset", "unknown"}

\* the configurations for which an interface constructor is called
Connectable == {"serial", "ip"}

Init ==
  /\ actions \in ScanOrders
  /\ pass = [t \in Threads |-> IdlePass]
  /\ hist = [t \in Threads |-> NoHist]
  /\ timer = InitTimer
  /\ pc = "loop_top"
  /\ iface = 0
  /\ my_node_num = 0
  /\ conn = "open"
  /\ subscribed = 0
  /\ link = "none"
  /\ hbDue = FALSE
  /\ exc = "none"
  /\ origin = "none"
  /\ trace = <<"Disconnected">>
  /\ backoffs = 0
  /\ connectFails = 0
  /\ otherFails = 0
  /\ tickSeen = FALSE
  /\ config \in Configs
  /\ Loaded
  /\ Unconnected
  /\ Untouched

\* positions inside the try block of main()
Connecting == {"connecting", "identity", "subscribe"}
InLoop == {"tick", "ticking", "heartbeat", "sleep"}
InTry == Connecting \cup InLoop \cup {"no_iface"}
Ended == {"stopped", "exited", "crashed"}

\* the supervisor state of the design that a position of main() stands for
SupState(p, o) ==
  IF p \in Connecting THEN "Connecting"
  ELSE IF p \in InLoop THEN "Connected"
  ELSE IF p \in {"except_conn", "except_other"} /\ o \in InLoop THEN "Degraded"
  ELSE "Disconnected"

\* the state sequence an observer records until Connected is first seen
Observe(tr, s) ==
  IF tr[Len(tr)] = "Connected" \/ tr[Len(tr)] = s THEN tr ELSE Append(tr, s)

\* the except clause that takes an exception raised inside the try block
HandlerOf(e) ==
  CASE e = "OSError" -> "except_conn"
    [] e = "KeyboardInterrupt" -> "except_kbd"
    [] OTHER -> "except_other"

\* the observer counts failures and backoffs until Connected is first seen
Counting == trace[Len(trace)] # "Connected"

MayFail == ~Counting \/ connectFails + otherFails < MaxFails

Count(n, k) == IF Counting THEN n + k ELSE n

\* an exception e raised at the current position inside the try block
Raise(e) ==
  /\ pc' = HandlerOf(e)
  /\ exc' = e
  /\ origin' = pc
  /\ trace' = Observe(trace, SupState(HandlerOf(e), pc))
  /\ tickSeen' = FALSE

\* while True: iface = None; "Connecting to Meshtastic device..."; the exception
\* of the last round is out of scope
BeginAttempt ==
  /\ pc = "loop_top"
  /\ pc' = "connecting"
  /\ iface' = 0
  /\ exc' = "none"
  /\ origin' = "none"
  /\ trace' = Observe(trace, "Connecting")
  /\ UNCHANGED <<my_node_num, conn, subscribed, link, hbDue,
                 backoffs, connectFails, otherFails, tickSeen, config>>
  /\ UNCHANGED dvars
  /\ UNCHANGED lvars
  /\ UNCHANGED cvars
  /\ UNCHANGED mvars

\* SerialInterface(...) / TCPInterface(...) raises: before it has opened the
\* port or socket, or after (the handshake times out); the object it was
\* building is then never assigned to iface
ConstructorLeaves(n) ==
  IF "leak" \in world /\ n < MaxLeaks THEN {n, n + 1} ELSE {n}

\* the device a constructor that returns has reached
Reached(d) ==
  IF "swap" \in world /\ d # 0 THEN Devices ELSE {DeviceNodeNum}

\* the configuration check and the interface constructor
Connect ==
  /\ pc = "connecting"
  /\ \/ /\ config \notin Connectable
        /\ pc' = "exited"
        /\ trace' = Observe(trace, "Disconnected")
        /\ UNCHANGED <<iface, link, exc, origin, connectFails, tickSeen, device, leaked>>
     \/ /\ config \in Connectable
        /\ pc' = "identity"
        /\ iface' = Handle
        /\ link' = "open"
        /\ device' \in Reached(device)
        /\ UNCHANGED <<exc, origin, connectFails, tickSeen, trace, leaked>>
     \/ /\ config \in Connectable
        /\ MayFail
        /\ \E e \in {"OSError", "Exception"} : Raise(e)
        /\ connectFails' = Count(connectFails, 1)
        /\ leaked' \in ConstructorLeaves(leaked)
        /\ UNCHANGED <<iface, link, device>>
     \/ /\ config \in Connectable
        /\ MayFail
        /\ pc' = "no_iface"
        /\ connectFails' = Count(connectFails, 1)
        /\ trace' = Observe(trace, "Disconnected")
        /\ UNCHANGED <<iface, link, exc, origin, tickSeen, device, leaked>>
  /\ UNCHANGED <<my_node_num, conn, subscribed, hbDue, backoffs, otherFails, config>>
  /\ UNCHANGED world
  /\ UNCHANGED dvars
  /\ UNCHANGED lvars
  /\ UNCHANGED mvars

\* if not iface: ... time.sleep(30); continue
NoIfaceRetry ==
  /\ pc = "no_iface"
  /\ pc' = "loop_top"
  /\ backoffs' = Count(backoffs, 1)
  /\ UNCHANGED <<iface, my_node_num, conn, subscribed, link, hbDue, exc, origin,
                 trace, connectFails, otherFails, tickSeen, config>>
  /\ UNCHANGED dvars
  /\ UNCHANGED lvars
  /\ UNCHANGED cvars
  /\ UNCHANGED mvars

\* my_node_num = iface.myInfo.my_node_num
Identity ==
  /\ pc = "identity"
  /\ \/ /\ pc' = "subscribe"
        /\ my_node_num' = device
        /\ UNCHANGED <<exc, origin, trace, otherFails, tickSeen>>
     \/ /\ MayFail
        /\ Raise("Exception")
        /\ otherFails' = Count(otherFails, 1)
        /\ UNCHANGED my_node_num
  /\ UNCHANGED <<iface, conn, subscribed, link, hbDue, backoffs, connectFails, config>>
  /\ UNCHANGED dvars
  /\ UNCHANGED lvars
  /\ UNCHANGED cvars
  /\ UNCHANGED mvars

\* pub.unsubscribe(on_receive, topic): removes the listener; raises when it is
\* not subscribed, which main() ignores
PubUnsubscribe(n) == IF n > 0 THEN n - 1 ELSE 0

\* a variant whose subscribe has no effect
PubSubscribeLost(n) == n

\* pub.subscribe(on_receive, topic): adds the listener unless it is subscribed
\* already
PubSubscribe(n) == IF n > 0 THEN n ELSE 1

\* pub.unsubscribe (errors ignored), pub.subscribe, the listing of the actions,
\* last_heartbeat_time = time.time(); an exception of subscribe or of the listing
\* leaves for the handler
Subscribe ==
  /\ pc = "subscribe"
  /\ \/ /\ pc' = "tick"
        /\ subscribed' = PubSubscribe(PubUnsubscribe(subscribed))
        /\ hbDue' = FALSE
        /\ trace' = Observe(trace, "Connected")
        /\ UNCHANGED <<exc, origin, otherFails, tickSeen>>
     \/ /\ MayFail
        /\ Raise("Exception")
        /\ subscribed' \in {PubUnsubscribe(subscribed),
                            PubSubscribe(PubUnsubscribe(subscribed))}
        /\ otherFails' = Count(otherFails, 1)
        /\ UNCHANGED hbDue
  /\ UNCHANGED <<iface, my_node_num, conn, link, backoffs, connectFails, config>>
  /\ UNCHANGED dvars
  /\ UNCHANGED lvars
  /\ UNCHANGED cvars
  /\ UNCHANGED mvars

\* action_manager.run_actions(iface, my_node_num, conn=conn) is called
Tick ==
  /\ pc = "tick"
  /\ pass' = [pass EXCEPT !["main"] = NewPass(iface, my_node_num, NoPacket, conn)]
  /\ hist' = [hist EXCEPT !["main"] = NewHist(iface, my_node_num, NoPacket, conn)]
  /\ pc' = "ticking"
  /\ tickSeen' = TRUE
  /\ trace' = <<"Connected">>
  /\ backoffs' = 0
  /\ connectFails' = 0
  /\ otherFails' = 0
  /\ UNCHANGED <<actions, timer>>
  /\ UNCHANGED <<iface, my_node_num, conn, subscribed, link, hbDue, exc, origin,
                 config>>
  /\ UNCHANGED lvars
  /\ UNCHANGED cvars
  /\ UNCHANGED mvars

\* that call goes through the registry and returns
TickStep ==
  /\ pc = "ticking"
  /\ Check("main") \/ Invoke("main")
  /\ UNCHANGED svars
  /\ UNCHANGED lvars
  /\ UNCHANGED cvars
  /\ UNCHANGED mvars

\* and returns to the main loop
TickReturn ==
  /\ pc = "ticking"
  /\ Return("main")
  /\ IF pass["main"].escaped = "none"
     THEN /\ pc' = "heartbeat"
          /\ UNCHANGED <<exc, origin, trace, tickSeen>>
     ELSE Raise(pass["main"].escaped)
  /\ UNCHANGED <<iface, my_node_num, conn, subscribed, link, hbDue, backoffs,
                 connectFails, otherFails, config>>
  /\ UNCHANGED lvars
  /\ UNCHANGED cvars
  /\ UNCHANGED mvars

\* if time.time() - last_heartbeat_time > 30: iface.sendHeartbeat()
Heartbeat ==
  /\ pc = "heartbeat"
  /\ \/ /\ ~hbDue
        /\ pc' = "sleep"
        /\ UNCHANGED <<hbDue, exc, origin, trace, otherFails, tickSeen>>
     \/ /\ hbDue
        /\ pc' = "sleep"
        /\ hbDue' = FALSE
        /\ UNCHANGED <<exc, origin, trace, otherFails, tickSeen>>
     \/ /\ hbDue
        /\ MayFail
        /\ \E e \in {"OSError", "Exception"} : Raise(e)
        /\ otherFails' = Count(otherFails, 1)
        /\ UNCHANGED hbDue
  /\ UNCHANGED <<iface, my_node_num, conn, subscribed, link, backoffs, connectFails, config>>
  /\ UNCHANGED dvars
  /\ UNCHANGED lvars
  /\ UNCHANGED cvars
  /\ UNCHANGED mvars

\* time.sleep(1)
Sleep ==
  /\ pc = "sleep"
  /\ pc' = "tick"
  /\ UNCHANGED <<iface, my_node_num, conn, subscribed, link, hbDue, exc, origin,
                 trace, backoffs, connectFails, otherFails, tickSeen, config>>
  /\ UNCHANGED dvars
  /\ UNCHANGED lvars
  /\ UNCHANGED cvars
  /\ UNCHANGED mvars

\* iface.close(): returns, raises an OSError, or raises another exception; a close
\* that raised may or may not have stopped the transport
Close(e) ==
  IF iface = 0 THEN {link}
  ELSE IF e = "ok" THEN {"closed"}
  ELSE {link, "closed"}

CloseOutcomes == IF iface = 0 THEN {"ok"} ELSE {"ok", "OSError", "Exception"}

\* try: if iface: iface.close()  except (BrokenPipeError, OSError): pass
Swallowed(e) == e \in {"ok", "OSError"}

\* a variant whose except blocks continue without time.sleep(30)
AfterTeardownRetry == "loop_top"

\* after the close the except block sleeps before it continues
AfterTeardown == "backoff"

\* the body of except (OSError, ConnectionError, BrokenPipeError) and of
\* except Exception, up to time.sleep(30)
Teardown ==
  /\ pc \in {"except_conn", "except_other"}
  /\ \E e \in CloseOutcomes :
       /\ link' \in Close(e)
       /\ IF Swallowed(e)
          THEN /\ pc' = AfterTeardown
               /\ UNCHANGED <<exc, origin>>
          ELSE /\ pc' = "crashed"
               /\ exc' = e
               /\ origin' = pc
  /\ trace' = Observe(trace, "Disconnected")
  /\ UNCHANGED <<iface, my_node_num, conn, subscribed, hbDue, backoffs,
                 connectFails, otherFails, tickSeen, config>>
  /\ UNCHANGED dvars
  /\ UNCHANGED lvars
  /\ UNCHANGED cvars
  /\ UNCHANGED mvars

\* time.sleep(30); continue
Backoff ==
  /\ pc = "backoff"
  /\ pc' = "loop_top"
  /\ backoffs' = Count(backoffs, 1)
  /\ UNCHANGED <<iface, my_node_num, conn, subscribed, link, hbDue, exc, origin,
                 trace, connectFails, otherFails, tickSeen, config>>
  /\ UNCHANGED dvars
  /\ UNCHANGED lvars
  /\ UNCHANGED cvars
  /\ UNCHANGED mvars

\* Ctrl-C: KeyboardInterrupt is raised in the main thread, wherever it is
Interrupt ==
  /\ pc \notin Ended
  /\ IF pc \in InTry
     THEN /\ Raise("KeyboardInterrupt")
     ELSE /\ pc' = "crashed"
          /\ exc' = "KeyboardInterrupt"
          /\ origin' = pc
          /\ trace' = Observe(trace, "Disconnected")
          /\ tickSeen' = FALSE
  /\ pass' = [pass EXCEPT !["main"] = IdlePass]
  /\ hist' = [hist EXCEPT !["main"] = NoHist]
  /\ UNCHANGED <<actions, timer>>
  /\ UNCHANGED <<iface, my_node_num, conn, subscribed, link, hbDue, backoffs,
                 connectFails, otherFails, config>>
  /\ UNCHANGED lvars
  /\ UNCHANGED cvars
  /\ UNCHANGED mvars

\* except KeyboardInterrupt: if iface: iface.close(), errors of the OSError family ignored
ShutdownClose ==
  /\ pc = "except_kbd"
  /\ \E e \in CloseOutcomes :
       /\ link' \in Close(e)
       /\ IF Swallowed(e)
          THEN /\ pc' = "close_db"
               /\ UNCHANGED <<exc, origin>>
          ELSE /\ pc' = "crashed"
               /\ exc' = e
               /\ origin' = pc
  /\ UNCHANGED <<iface, my_node_num, conn, subscribed, hbDue, trace, backoffs,
                 connectFails, otherFails, tickSeen, config>>
  /\ UNCHANGED dvars
  /\ UNCHANGED lvars
  /\ UNCHANGED cvars
  /\ UNCHANGED mvars

\* after the loop: logger.info("Meshtastic Bot stopped."), main() returns and the
\* interpreter exits (the other threads are daemons)
Finish ==
  /\ pc = "after_loop"
  /\ pc' = "stopped"
  /\ UNCHANGED <<iface, my_node_num, conn, subscribed, link, hbDue, exc, origin,
                 trace, backoffs, connectFails, otherFails, tickSeen, config>>
  /\ UNCHANGED dvars
  /\ UNCHANGED lvars
  /\ UNCHANGED cvars
  /\ UNCHANGED mvars

\* if conn: conn.close(); break
CloseDb ==
  /\ pc = "close_db"
  /\ pc' = "after_loop"
  /\ conn' = "closed"
  /\ UNCHANGED <<iface, my_node_num, subscribed, link, hbDue, exc, origin, trace,
                 backoffs, connectFails, otherFails, tickSeen, config>>
  /\ UNCHANGED dvars
  /\ UNCHANGED lvars
  /\ UNCHANGED cvars
  /\ UNCHANGED mvars

\* 30 seconds have gone by since last_heartbeat_time
HeartbeatComesDue ==
  /\ pc \in InLoop
  /\ ~hbDue
  /\ hbDue' = TRUE
  /\ UNCHANGED <<pc, iface, my_node_num, conn, subscribed, link, exc, origin,
                 trace, backoffs, connectFails, otherFails, tickSeen, config>>
  /\ UNCHANGED dvars
  /\ UNCHANGED lvars
  /\ UNCHANGED cvars
  /\ UNCHANGED mvars

\* INTERVAL_SECONDS have gone by since a module's last_run_time
IntervalElapses ==
  /\ pc \notin Ended
  /\ \E n \in DOMAIN timer :
       /\ timer[n] = "running"
       /\ timer' = [timer EXCEPT ![n] = "elapsed"]
  /\ UNCHANGED <<actions, pass, hist>>
  /\ UNCHANGED svars
  /\ UNCHANGED lvars
  /\ UNCHANGED cvars
  /\ UNCHANGED mvars

(***************************************************************************)
(* on_receive: the listener of "meshtastic.receive", run by the reader     *)
(* thread of an open transport for every packet it publishes, with the     *)
(* interface that received it; action_manager is set before the first      *)
(* subscribe.                                                              *)
(***************************************************************************)
OnReceive ==
  /\ subscribed > 0
  /\ link = "open"
  /\ pc \notin Ended
  /\ ~pass["reader"].on
  /\ \E p \in Packets \cup {EmptyPacket} :
       IF OnReceiveOutcome(p, Handle, TRUE) # "dispatched"
       THEN UNCHANGED <<pass, hist>>
       ELSE /\ pass' = [pass EXCEPT !["reader"] = NewPass(Handle, my_node_num, p, conn)]
            /\ hist' = [hist EXCEPT !["reader"] = NewHist(Handle, my_node_num, p, conn)]
  /\ UNCHANGED <<actions, timer>>
  /\ UNCHANGED svars
  /\ UNCHANGED lvars
  /\ UNCHANGED cvars
  /\ UNCHANGED mvars

\* the run_actions call of on_receive goes through the registry
ReceiveStep ==
  /\ pc \notin Ended
  /\ Check("reader") \/ Invoke("reader")
  /\ UNCHANGED svars
  /\ UNCHANGED lvars
  /\ UNCHANGED cvars
  /\ UNCHANGED mvars

\* on_receive returns
ReceiveReturn ==
  /\ pc \notin Ended
  /\ Return("reader")
  /\ UNCHANGED svars
  /\ UNCHANGED lvars
  /\ UNCHANGED cvars
  /\ UNCHANGED mvars

Next ==
  \/ BeginAttempt \/ Connect \/ NoIfaceRetry \/ Identity \/ Subscribe
  \/ Tick \/ TickStep \/ TickReturn \/ Heartbeat \/ Sleep
  \/ Teardown \/ Backoff \/ Interrupt \/ ShutdownClose \/ CloseDb \/ Finish
  \/ HeartbeatComesDue \/ IntervalElapses
  \/ OnReceive \/ ReceiveStep \/ ReceiveReturn

Spec == Init /\ [][Next]_vars

\* the supervisor on a serial port behind which the device may be replaced and
\* whose constructor may time out after opening the port
InitWorld ==
  /\ actions = <<PingPong, RebootNode, StatusReporter, WelcomeMessage>>
  /\ pass = [t \in Threads |-> IdlePass]
  /\ hist = [t \in Threads |-> NoHist]
  /\ timer = InitTimer
  /\ pc = "loop_top"
  /\ iface = 0
  /\ my_node_num = 0
  /\ conn = "open"
  /\ subscribed = 0
  /\ link = "none"
  /\ hbDue = FALSE
  /\ exc = "none"
  /\ origin = "none"
  /\ trace = <<"Disconnected">>
  /\ backoffs = 0
  /\ connectFails = 0
  /\ otherFails = 0
  /\ tickSeen = FALSE
  /\ config = "serial"
  /\ Loaded
  /\ device = 0
  /\ leaked = 0
  /\ world \in {{"swap"}, {"leak"}}
  /\ Untouched

SpecWorld == InitWorld /\ [][Next]_vars

\* the steps of the main thread itself: the interpreter keeps running main(), and
\* every time.sleep ends
MainStep ==
  \/ BeginAttempt \/ Connect \/ NoIfaceRetry \/ Identity \/ Subscribe
  \/ Tick \/ TickStep \/ TickReturn \/ Heartbeat \/ Sleep
  \/ Teardown \/ Backoff \/ ShutdownClose \/ CloseDb \/ Finish

SpecLive == Spec /\ WF_vars(MainStep)

(***************************************************************************)
(* What a run_actions call in progress has done so far.                    *)
(***************************************************************************)
Calls(t) == hist[t].calls
Made(t, i, fn) ==
  {k \in 1..Len(Calls(t)) : Calls(t)[k].i = i /\ Calls(t)[k].fn = fn}
Returned(t, i, fn, out) == \E k \in Made(t, i, fn) : Calls(t)[k].out = out
Executed(t, i) == Made(t, i, "execute") # {}
RaisedIn(t, i) ==
  \E k \in 1..Len(Calls(t)) : Calls(t)[k].i = i /\ Calls(t)[k].out = "raise"
OnTick(t) == pass[t].on /\ pass[t].packet = NoPacket
OnPacket(t) == pass[t].on /\ pass[t].packet # NoPacket
Returning(t) == pass[t].on /\ pass[t].stage = "return"
Registry == 1..Len(actions)

\* the eligibility check of module i came out true in this pass
Eligible(t, i) ==
  IF pass[t].packet = NoPacket THEN Returned(t, i, "should_run", "true")
  ELSE IF actions[i].srop THEN Returned(t, i, "should_run_on_packet", "true")
  ELSE "packet" \in actions[i].params /\ Returned(t, i, "should_run", "true")

(***************************************************************************)
(* The dispatch engine, on registries of stub modules (SpecDispatch).      *)
(***************************************************************************)

\* C1: in every dispatch pass, Tick or Packet, an error raised by a module's
\* eligibility check or by its execute does not leave run_actions, and every
\* module later in registry order is still evaluated and, when eligible, executed
\* in that same pass.
C1_FailureIsolation ==
  \A t \in Threads :
    /\ pass[t].escaped = "none"
    /\ Returning(t) =>
         \A j \in Registry : RaisedIn(t, j) =>
           \A i \in Registry : i > j =>
             /\ i \in hist[t].visited
             /\ Eligible(t, i) => Executed(t, i)

\* a pass returns in which a module raised in execute and a later one was executed
C1_Witness ==
  /\ Returning("main")
  /\ \E j, i \in Registry :
       /\ j < i
       /\ Returned("main", j, "execute", "raise")
       /\ Returned("main", i, "execute", "ok")

\* C2: on a Tick (packet=None) a module is executed iff it defines should_run and
\* that call returns true; should_run_on_packet is never called, and a module
\* without should_run is never executed.
C2_TickUsesShouldRunOnly ==
  \A t \in Threads : OnTick(t) =>
    \A i \in Registry :
      /\ Made(t, i, "should_run_on_packet") = {}
      /\ Executed(t, i) => actions[i].sr /\ Returned(t, i, "should_run", "true")
      /\ Returning(t) =>
           /\ Cardinality(Made(t, i, "should_run")) = IF actions[i].sr THEN 1 ELSE 0
           /\ Returned(t, i, "should_run", "true") => Executed(t, i)

\* a Tick pass returns having executed a module that also defines
\* should_run_on_packet, and having skipped one without should_run
C2_Witness ==
  /\ OnTick("main")
  /\ Returning("main")
  /\ \E i, j \in Registry :
       /\ actions[i].srop /\ Executed("main", i)
       /\ ~actions[j].sr /\ actions[j].srop /\ ~Executed("main", j)

\* C3: on a Packet, for every module that defines should_run_on_packet, should_run
\* is never called in that pass and the module is executed iff
\* should_run_on_packet returns true.
C3_PacketPrefersEventCheck ==
  \A t \in Threads : OnPacket(t) =>
    \A i \in Registry : actions[i].srop =>
      /\ Made(t, i, "should_run") = {}
      /\ Executed(t, i) => Returned(t, i, "should_run_on_packet", "true")
      /\ Returning(t) =>
           /\ Cardinality(Made(t, i, "should_run_on_packet")) = 1
           /\ Returned(t, i, "should_run_on_packet", "true") => Executed(t, i)

\* a Packet pass returns having executed a module with both checks and having
\* skipped another one whose should_run_on_packet returned false
C3_Witness ==
  /\ OnPacket("main")
  /\ Returning("main")
  /\ \E i, j \in Registry :
       /\ actions[i].srop /\ actions[i].sr /\ Executed("main", i)
       /\ actions[j].srop /\ actions[j].sr /\ ~Executed("main", j)
       /\ Returned("main", j, "should_run_on_packet", "false")

\* C4: execute always receives the connection handle and the own node number; it
\* receives packet only if its signature declares packet, and conn only if it
\* declares conn; a module that declares neither is passed neither, even on a
\* Packet.
C4_ArgumentBinding ==
  \A t \in Threads : \A k \in 1..Len(Calls(t)) :
    Calls(t)[k].fn = "execute" =>
      /\ Calls(t)[k].pos = <<hist[t].interface, hist[t].my_node_num>>
      /\ Calls(t)[k].pos = <<pass[t].interface, pass[t].my_node_num>>
      /\ "packet" \in Calls(t)[k].kw => "packet" \in actions[Calls(t)[k].i].params
      /\ "conn" \in Calls(t)[k].kw => "conn" \in actions[Calls(t)[k].i].params
      /\ actions[Calls(t)[k].i].params = {} => Calls(t)[k].kw = {}

\* on a Packet a module that declares neither parameter has been executed, and
\* one that declares only conn has been too
C4_Witness ==
  /\ OnPacket("main")
  /\ \E i, j \in Registry :
       /\ actions[i].params = {} /\ Executed("main", i)
       /\ actions[j].params = {"conn"} /\ Executed("main", j)

\* C5: on a Packet, a module without should_run_on_packet but with should_run
\* whose execute declares packet is executed iff should_run returns true at that
\* moment.
C5_LegacyShim ==
  \A t \in Threads : OnPacket(t) =>
    \A i \in Registry :
      (~actions[i].srop /\ actions[i].sr /\ "packet" \in actions[i].params) =>
        /\ Executed(t, i) => Returned(t, i, "should_run", "true")
        /\ Returning(t) =>
             /\ Cardinality(Made(t, i, "should_run")) = 1
             /\ Returned(t, i, "should_run", "true") => Executed(t, i)

\* a Packet pass returns having executed one legacy module whose should_run
\* returned true and skipped another whose should_run returned false
C5_Witness ==
  /\ OnPacket("main")
  /\ Returning("main")
  /\ \E i, j \in Registry :
       /\ ~actions[i].srop /\ "packet" \in actions[i].params
       /\ Returned("main", i, "should_run", "true") /\ Executed("main", i)
       /\ ~actions[j].srop /\ "packet" \in actions[j].params
       /\ Returned("main", j, "should_run", "false") /\ ~Executed("main", j)

(***************************************************************************)
(* The program: the four action modules under the supervisor (Spec).       *)
(***************************************************************************)

\* C6: on a Packet, for a module without should_run_on_packet whose execute does
\* not declare packet (reboot_node, status_reporter), should_run is not called
\* and the module is not executed, so its last_run_time is unchanged by the pass.
C6_LegacyWithoutPacketUntouched ==
  \A t \in Threads : OnPacket(t) =>
    \A i \in Registry :
      (~actions[i].srop /\ "packet" \notin actions[i].params) =>
        /\ Made(t, i, "should_run") = {}
        /\ ~Executed(t, i)
        /\ actions[i].name \notin hist[t].touched

Degraded == SupState(pc, origin) = "Degraded"

\* C7: a heartbeat failure while Connected takes the supervisor to Degraded, then
\* to Disconnected (the backoff), then to Connecting, without a shutdown signal
\* being needed, and no Tick dispatch pass starts before the next Connected.
C7_HeartbeatFailureRecovers ==
  [][/\ (pc = "heartbeat" /\ exc' \in {"OSError", "Exception"}) =>
          SupState(pc', origin') = "Degraded"
     /\ (Degraded /\ origin = "heartbeat" /\ pc' # pc /\ exc' # "KeyboardInterrupt") =>
          pc' = "backoff" /\ SupState(pc', origin') = "Disconnected"
     /\ (pc = "backoff" /\ pc' # pc /\ exc' # "KeyboardInterrupt") => pc' = "loop_top"
     /\ (pc = "loop_top" /\ pc' # pc /\ exc' # "KeyboardInterrupt") =>
          SupState(pc', origin') = "Connecting"
     /\ (~pass["main"].on /\ pass'["main"].on) => SupState(pc, origin) = "Connected"
    ]_vars

\* C8: when connect fails twice and then succeeds, two backoff delays have been
\* slept and the state sequence is Disconnected, Connecting, Disconnected,
\* Connecting, Disconnected, Connecting, Connected; no Tick is dispatched before
\* Connected is reached.
C8_TwoFailuresThenConnected ==
  /\ Counting => ~tickSeen /\ ~pass["main"].on
  /\ (pc = "tick" /\ Len(trace) > 1 /\ ~Counting /\ connectFails = 2 /\ otherFails = 0) =>
       /\ backoffs = 2
       /\ trace = <<"Disconnected", "Connecting", "Disconnected", "Connecting",
                    "Disconnected", "Connecting", "Connected">>

\* Connected is reached for the first time after exactly two failed connects
C8_Witness ==
  /\ pc = "tick"
  /\ Len(trace) > 1
  /\ ~Counting
  /\ connectFails = 2
  /\ otherFails = 0

\* C9: once the supervisor has torn down a failed connection, and until it is
\* Connected again, on_receive is not subscribed and no Packet dispatch pass can
\* start.
C9_UnsubscribedAfterTeardown ==
  (pc \in {"backoff", "loop_top", "no_iface"} \cup Connecting) =>
     /\ subscribed = 0
     /\ ~ENABLED OnReceive

\* C10: only a configuration error or a shutdown signal ends main(): an exception
\* raised while connecting, resolving the node number, subscribing, dispatching
\* ticks, sending a heartbeat or closing the broken handle leads to the backoff.
C10_OnlyConfigOrShutdownEnds ==
  pc \in Ended =>
    \/ pc = "exited" /\ config \notin Connectable
    \/ exc = "KeyboardInterrupt"
    \/ origin = "except_kbd"

\* C11: on a shutdown signal received while Connected, the supervisor dispatches
\* no further Tick, then closes the transport handle, then closes the
\* persistence handle, in that order, and the loop terminates.
C11_ShutdownWhileConnected ==
  [][/\ (Interrupt /\ pc \in InLoop) => pc' = "except_kbd" /\ ~pass'["main"].on
     /\ (exc = "KeyboardInterrupt" /\ origin \in InLoop /\ ~Interrupt) =>
          /\ ~pass'["main"].on
          /\ conn' # conn => pc = "close_db"
          /\ (pc = "except_kbd" /\ pc' # pc) => pc' = "close_db" /\ conn' = "open"
          /\ (pc = "close_db" /\ pc' # pc) => pc' = "after_loop" /\ conn' = "closed"
          /\ (pc = "after_loop" /\ pc' # pc) => pc' = "stopped"
    ]_vars

\* C12: a shutdown signal received while connecting, while connected or during
\* the backoff delay after a failure always ends in the persistence handle being
\* closed and a clean exit, also when closing the transport handle raises.
C12_ShutdownAlwaysClean ==
  (/\ pc \in Ended
   /\ \/ exc = "KeyboardInterrupt" /\ origin \in Connecting \cup InLoop \cup {"backoff"}
      \/ exc # "KeyboardInterrupt" /\ origin = "except_kbd")
  => pc = "stopped" /\ conn = "closed"

\* C13: a dispatch pass started by on_receive and one started by the tick loop
\* are never both inside the loop body of run_actions for the same action (its
\* eligibility check or its execute): dispatch is serialized or the action's
\* state is protected.
C13_PassesDoNotInterleave ==
  ~(/\ pass["main"].on /\ pass["main"].stage \in {"check", "run"}
    /\ pass["reader"].on /\ pass["reader"].stage \in {"check", "run"}
    /\ pass["main"].i = pass["reader"].i)

\* C14: every recoverable failure (connect failure, heartbeat failure, IO error,
\* unexpected runtime error) is followed by a backoff delay before the next
\* connect attempt: a failure handler is left only into the backoff sleep (or by
\* the end of the process), and every connect attempt but the first is entered
\* from the top of the loop, which is reached only from a completed 30 s sleep.
C14_BackoffBeforeReconnect ==
  [][/\ (pc \in {"except_conn", "except_other"} /\ pc' # pc) =>
          pc' \in {"backoff"} \cup Ended
     /\ (pc' = "loop_top" /\ pc # "loop_top") =>
          pc \in {"backoff", "no_iface"} /\ backoffs' = Count(backoffs, 1)
     /\ (pc' = "connecting" /\ pc # "connecting") => pc = "loop_top"
    ]_vars

\* a third connect attempt begins after a failed constructor and an unexpected
\* error after connecting, each followed by its backoff
C14_Witness ==
  /\ pc = "connecting"
  /\ Counting
  /\ connectFails = 1
  /\ otherFails = 1
  /\ backoffs = 2

\* a shutdown signal has been received
Signalled == exc = "KeyboardInterrupt" \/ origin = "except_kbd"

\* C15: absent a shutdown signal or a configuration error, after any connection
\* failure the supervisor eventually makes a new connect attempt.
C15_EventuallyReconnects ==
  (pc \in {"except_conn", "except_other", "no_iface"}) ~> (pc = "connecting" \/ Signalled)

\* CONNECTION_TYPE is "ip" with DEVICE_IP unset, or is neither "serial" nor "ip"
ConfigError == config \in {"ip_unset", "unknown"}

\* C19: a configuration error is fatal: the supervisor exits without making a
\* connect attempt (no constructor is called, no handle exists), without backoff
\* or retry, and without dispatching any event; from the configuration check the
\* only way on is the exit.
C19_ConfigErrorFatal ==
  ConfigError =>
    /\ iface = 0 /\ link = "none" /\ connectFails = 0
    /\ backoffs = 0
    /\ pc \in {"loop_top", "connecting", "exited", "except_kbd", "close_db",
               "after_loop", "stopped", "crashed"}
    /\ pc \in {"except_kbd", "close_db", "after_loop", "stopped", "crashed"} => Signalled
    /\ subscribed = 0 /\ ~tickSeen /\ \A t \in Threads : ~pass[t].on
    /\ ~ENABLED OnReceive
    /\ pc = "connecting" => ENABLED Connect /\ ~ENABLED (Connect /\ pc' # "exited")

\* main() has returned from the configuration check of an "ip" configuration
\* without DEVICE_IP
C19_Witness == pc = "exited" /\ config = "ip_unset"

\* C20: while Connected the heartbeat does not wait for the Tick pass: when the
\* heartbeat comes due while the pass is at reboot_node's execute (which sleeps),
\* the probe can be sent without the pass returning first.
C20_HeartbeatIndependentOfTick ==
  (/\ hbDue
   /\ pc = "ticking"
   /\ pass["main"].stage = "run"
   /\ actions[pass["main"].i].name = "reboot_node")
  => ENABLED Heartbeat

\* this step is thread t calling execute of the module called name
ExecStep(t, name) ==
  /\ Len(Calls(t)) > 0 \/ Len(hist'[t].calls) > 0
  /\ Len(hist'[t].calls) = Len(Calls(t)) + 1
  /\ hist'[t].calls[Len(hist'[t].calls)].fn = "execute"
  /\ actions[hist'[t].calls[Len(hist'[t].calls)].i].name = name

\* C24: the reboot action is not executed on the first eligibility check (which
\* only starts the interval), every execution happens with the interval since
\* last_run_time elapsed and restarts it, successful or not, and the interval
\* elapses only by time going by after a check or an execution started it.
C24_RebootRateLimit ==
  [][/\ \A t \in Threads : ExecStep(t, "reboot_node") =>
          timer.reboot_node = "elapsed" /\ timer'.reboot_node = "running"
     /\ (timer.reboot_node = "unset" /\ timer'.reboot_node # "unset") =>
          /\ timer'.reboot_node = "running"
          /\ \A t \in Threads :
               ~ExecStep(t, "reboot_node")
               /\ ~(pass'[t].on /\ pass'[t].stage = "run"
                    /\ actions[pass'[t].i].name = "reboot_node")
     /\ (timer'.reboot_node = "elapsed" /\ timer.reboot_node # "elapsed") =>
          timer.reboot_node = "running" /\ pass' = pass
     /\ \A t \in Threads :
          (pass'[t].on /\ pass'[t].stage = "run"
           /\ actions[pass'[t].i].name = "reboot_node") =>
            t = "main" /\ timer'.reboot_node = "elapsed"
    ]_vars

\* a Tick pass has executed reboot_node, and the interval runs again
C24_Witness ==
  /\ OnTick("main")
  /\ \E i \in Registry :
       actions[i].name = "reboot_node" /\ Returned("main", i, "execute", "ok")
  /\ timer.reboot_node = "running"

\* C25: once a Tick pass has fired the status reporter, its interval runs anew,
\* so no later Tick fires it before INTERVAL_SECONDS have elapsed, also when its
\* execute raises part-way.
C25_StatusReporterPeriodic ==
  [][\A t \in Threads :
       (OnTick(t) /\ ExecStep(t, "status_reporter")) =>
         timer'.status_reporter = "running"
    ]_vars

\* C26: after any number of connect / failure / reconnect cycles on_receive is
\* subscribed to "meshtastic.receive" at most once, and whenever the supervisor
\* is Connected it is subscribed exactly once.
C26_SingleSubscription ==
  /\ subscribed \in {0, 1}
  /\ SupState(pc, origin) = "Connected" => subscribed = 1

\* Connected again after a failure that followed an earlier Connected
C26_Witness ==
  /\ pc = "tick"
  /\ trace = <<"Connected">>
  /\ ~tickSeen
  /\ subscribed = 1

\* this step is thread t calling an execute
ExecAny(t) ==
  /\ Len(hist'[t].calls) = Len(Calls(t)) + 1
  /\ hist'[t].calls[Len(hist'[t].calls)].fn = "execute"

\* C28: whenever an execute is invoked, from the tick loop or from on_receive, the
\* node number passed to it is resolved (not None) and is the one of the device
\* of the most recent successful connection.
C28_IdentityResolvedAndCurrent ==
  [][\A t \in Threads : ExecAny(t) =>
       /\ hist'[t].calls[Len(hist'[t].calls)].pos[2] # 0
       /\ hist'[t].calls[Len(hist'[t].calls)].pos[2] = device
    ]_vars

\* C29: at most one transport is open at any time: when a connect attempt is
\* about to be made, every transport an earlier attempt opened has had its close
\* called by the supervisor.
C29_OneHandleOpen ==
  /\ leaked + (IF iface # 0 /\ link = "open" THEN 1 ELSE 0) <= 1
  /\ pc \in {"loop_top", "connecting"} => leaked = 0

\* C30: no execute is invoked while the persistence handle is closed.
C30_NoUseOfClosedDb ==
  \A t \in Threads : \A k \in 1..Len(Calls(t)) :
    Calls(t)[k].fn = "execute" => Calls(t)[k].db = "open"

\* C27: on_receive starts no dispatch pass when the packet or the interface is
\* missing or empty or when the action manager is not yet set, it starts one
\* otherwise, and it never ends by raising to its caller: it returns, or logs
\* the exception it caught, or has called run_actions.
C27_ReceiveGuards ==
  [][HarnessReceive =>
       /\ pass'["main"].on <=>
            (probe'.packet.kind = "packet" /\ probe'.interface # 0 /\ probe'.am)
       /\ probe'.out \in {"returned", "logged", "dispatched"}
       /\ probe'.out = "dispatched" <=> pass'["main"].on]_vars

\* on_receive was called with a packet and an interface before the action
\* manager was set, and no pass was started
C27_Witness ==
  /\ probe.fn = "on_receive"
  /\ probe.packet.kind = "packet"
  /\ probe.interface = Handle
  /\ ~probe.am
  /\ ~pass["main"].on

(***************************************************************************)
(* ping_pong and welcome_message on their own (SpecPingPong, SpecWelcome). *)
(***************************************************************************)

\* C21: over any sequence of inbound packets, with sends and inserts that may
\* fail, a welcome message is sent to a given node at most once.
C21_WelcomeAtMostOnce == \A n \in Senders : welcomes[n] <= 1

\* the texts among Payloads that are 'ping' once trimmed and lower-cased
PingTexts == {<<"p", "i", "n", "g">>, <<" ", "P", "i", "N", "G", " ">>}

\* sendText("pong", ...) has been called in the last call of ping_pong.execute
PongAttempted ==
  \E k \in 1..Len(retry.log) : retry.log[k] \in {"sent_ok", "sent_fail", "send_raises"}

\* C22: ping_pong sends 'pong' only for a text packet whose message is 'ping'
\* (case-insensitive, trimmed), that is addressed to this node and does not come
\* from it; for every other packet and on a Tick (packet None) it sends nothing
\* (and for such a packet it does enter its send routine).
C22_PongOnlyForPing ==
  probe.fn = "ping_pong.execute" =>
    LET p == probe.packet
        due == /\ Truthy(p)
               /\ p.portnum = "TEXT_MESSAGE_APP"
               /\ p.payload \in PingTexts
               /\ p.to = probe.my
               /\ p.from # probe.my
    IN /\ PongAttempted => due
       /\ ~due => retry = NoRetry
       /\ due => retry # NoRetry

\* a pong has been sent for a ping in capitals with blanks around it
C22_Witness ==
  /\ probe.fn = "ping_pong.execute"
  /\ probe.packet.kind = "packet"
  /\ probe.packet.payload = <<" ", "P", "i", "N", "G", " ">>
  /\ retry.log = <<"sent_ok">>

\* C23: for one ping _send_pong_response makes at most 3 send attempts and none
\* after an attempt whose result says success; it is over after at most three
\* rounds and always by returning, never by an exception.
C23_BoundedRetry ==
  /\ Len(retry.log) <= 3
  /\ \A k \in 1..Len(retry.log) : retry.log[k] = "sent_ok" => k = Len(retry.log)
  /\ retry.on => Len(retry.log) < 3 /\ retry.out = "none"
  /\ (~retry.on /\ retry.log # <<>>) => retry.out = "returned"
  /\ (\E k \in 1..Len(retry.log) : retry.log[k] = "sent_ok") => ~retry.on
  /\ retry.on => ENABLED RetryAttempt

\* the routine has returned after a raising send, a failed send and a good one
C23_Witness ==
  /\ ~retry.on
  /\ retry.log = <<"send_raises", "sent_fail", "sent_ok">>

(***************************************************************************)
(* The registry load, on directories of candidate files (SpecLoad).        *)
(***************************************************************************)
LoadDone == loadpc = "done"

\* the candidate imports and exposes an execution capability and at least one of
\* the two eligibility capabilities
WellFormed(f) == f.kind = "module" /\ f.imports /\ f.exec /\ (f.sr \/ f.srop)

\* the candidate imports but has neither eligibility capability
NoEligibility(f) == f.kind = "module" /\ f.imports /\ ~f.sr /\ ~f.srop

\* the modules of the well-formed candidates among the first n files, in scan order
RECURSIVE WellFormedModules(_)
WellFormedModules(n) ==
  IF n = 0 THEN <<>>
  ELSE IF WellFormed(files[n])
       THEN Append(WellFormedModules(n - 1), ModuleOf(files[n]))
       ELSE WellFormedModules(n - 1)

\* C16: a load of one well-formed action and one candidate missing both
\* eligibility capabilities returns with a registry that holds only the
\* well-formed one.
C16_LoadSkipsMalformed ==
  (LoadDone /\ Len(files) = 2) =>
    \A i, j \in 1..2 :
      (i # j /\ WellFormed(files[i]) /\ NoEligibility(files[j])) =>
        actions = <<ModuleOf(files[i])>>

\* C17: load accepts every candidate with an execution capability and at least
\* one eligibility capability: a candidate with only should_run_on_packet and
\* execute is in the registry when load returns.
C17_LoadAcceptsEventOnly ==
  LoadDone =>
    \A i \in 1..Len(files) :
      (WellFormed(files[i]) /\ files[i].srop /\ ~files[i].sr) =>
        \E k \in 1..Len(actions) : actions[k] = ModuleOf(files[i])

\* C18: for any set of candidates, load returns (it never raises), a candidate
\* that raises while being imported is excluded, and the registry holds exactly
\* the valid candidates, wherever they are in the scan order.
C18_LoadExactlyValid ==
  /\ loadpc \in {"scan", "done"}
  /\ Len(actions) <= scanned
  /\ LoadDone => actions = WellFormedModules(Len(files))

====
